---- MODULE Spec2Model ----
(***************************************************************************)
(* Model of script.py: the password strength evaluator                     *)
(* (check_password_strength, detect_sequences, detect_repetitions) and the *)
(* interactive loop under `if __name__ == "__main__"`.                     *)
(*                                                                         *)
(* A Python str is modelled as a sequence of code points (ord of each     *)
(* character); the strings the program builds and returns (the feedback)   *)
(* are TLA+ strings.  The character predicates are those of Python's str   *)
(* methods on the code points the model uses: ASCII, the superscript       *)
(* digits U+00B2, U+00B3, U+00B9, the Arabic-Indic digits U+0660..U+0669   *)
(* and the Hebrew letters U+05D0..U+05EA.                                  *)
(***************************************************************************)
EXTENDS Integers, Sequences, FiniteSets, TLC

VARIABLES
    password,       \* the str argument of the call under examination
    fn,             \* which function was called: "none" before the call
    length,         \* the window argument of a detector call (3 by default)
    exc,            \* "none", or the exception the call raised / that ended the program
    retb,           \* the bool a detector returned (FALSE when none did)
    frame,          \* check_password_strength's locals and return value
    pc,             \* main loop: the program's position
    user_password,  \* main loop: what getpass gave, None after a failure
    strength,       \* main loop: the string that was printed last
    another,        \* main loop: the stripped, lowercased answer read last
    last_input,     \* history: how the last read of input() ended
    reads,          \* history: password prompts shown so far
    nonempty_reads, \* history: non-empty passwords read so far
    calls           \* history: calls of check_password_strength so far

vars == <<password, fn, length, exc, retb, frame, pc, user_password,
          strength, another, last_input, reads, nonempty_reads, calls>>

callVars == <<password, fn, length, exc, retb, frame>>
loopVars == <<pc, user_password, strength, another, last_input, reads,
              nonempty_reads, calls>>

-----------------------------------------------------------------------------
(* Configuration constants, script.py lines 11-30 *)

MIN_LENGTH == 8
GOOD_LENGTH == 12
POINTS_GOOD_LENGTH == 2
POINTS_MIN_LENGTH == 1
POINTS_LOWER == 1
POINTS_UPPER == 1
POINTS_DIGIT == 1
POINTS_SPECIAL == 2
PENALTY_SEQUENCE == 1
PENALTY_REPETITION == 1
THRESHOLD_WEAK == 1
THRESHOLD_MODERATE == 3
THRESHOLD_STRONG == 4
\* variant: the last threshold set to the one before it
THRESHOLD_VERY_STRONG_as_strong == THRESHOLD_STRONG
THRESHOLD_VERY_STRONG == 5

\* length=3, the default window of both detectors
DEFAULT_LENGTH == 3

-----------------------------------------------------------------------------
(* Python's str methods, on sequences of code points *)

\* string.punctuation: !"#$%&'()*+,-./:;<=>?@[\]^_`{|}~
string_punctuation == (33..47) \cup (58..64) \cup (91..96) \cup (123..126)

AsciiUpper == 65..90
AsciiLower == 97..122
HebrewLetters == 1488..1514
\* characters int() accepts: Unicode decimal digits (category Nd)
DecimalDigits == (48..57) \cup (1632..1641)
\* characters str.isdigit() accepts although int() does not
SuperscriptDigits == {178, 179, 185}
\* characters str.strip() removes
Whitespace == (9..13) \cup (28..32) \cup {133, 160}

\* c.islower(): a one-character str is lower iff it is a cased lowercase letter
islower(c) == c \in AsciiLower

\* c.isupper()
isupper(c) == c \in AsciiUpper

\* c.isdigit() for one character
char_isdigit(c) == c \in DecimalDigits \cup SuperscriptDigits

\* c.isalpha() for one character
char_isalpha(c) == c \in AsciiUpper \cup AsciiLower \cup HebrewLetters

\* s.isdigit(): non-empty and every character a digit
isdigit(s) == Len(s) > 0 /\ \A k \in 1..Len(s) : char_isdigit(s[k])

\* s.isalpha(): non-empty and every character a letter
isalpha(s) == Len(s) > 0 /\ \A k \in 1..Len(s) : char_isalpha(s[k])

\* s.lower(): every uppercase letter replaced by its lowercase letter
lower(s) == [k \in 1..Len(s) |-> IF s[k] \in AsciiUpper THEN s[k] + 32 ELSE s[k]]

\* ord(c) of a character: its code point
ord(c) == c

\* int(c) raises ValueError on a character that is no decimal digit
int_raises(c) == c \notin DecimalDigits

\* int(c) of a decimal digit
int(c) == IF c \in 48..57 THEN c - 48 ELSE c - 1632

\* s[i:j] for 0 <= i <= j: the characters at Python indices i..j-1 that exist
slice(s, i, j) == SubSeq(s, i + 1, IF j < Len(s) THEN j ELSE Len(s))

RECURSIVE lstrip(_)
lstrip(s) == IF Len(s) > 0 /\ s[1] \in Whitespace THEN lstrip(Tail(s)) ELSE s

RECURSIVE rstrip(_)
rstrip(s) ==
    IF Len(s) > 0 /\ s[Len(s)] \in Whitespace
    THEN rstrip(SubSeq(s, 1, Len(s) - 1))
    ELSE s

\* s.strip()
strip(s) == rstrip(lstrip(s))

\* s.startswith('n')
startswith_n(s) == Len(s) > 0 /\ s[1] = 110

\* str(n) of a non-negative integer, as an f-string formats it
DigitText == <<"0", "1", "2", "3", "4", "5", "6", "7", "8", "9">>

RECURSIVE str(_)
str(n) == IF n < 10 THEN DigitText[n + 1] ELSE str(n \div 10) \o DigitText[(n % 10) + 1]

\* sep.join(list) of a list of strings
RECURSIVE join(_, _)
join(sep, list) ==
    IF Len(list) = 0 THEN ""
    ELSE IF Len(list) = 1 THEN list[1]
    ELSE list[1] \o sep \o join(sep, Tail(list))

-----------------------------------------------------------------------------
(* detect_sequences, script.py lines 34-67 *)

\* the loop of lines 49-52 from index j: "seq" when is_num_seq stays True,
\* "break" when a pair is no step of one, "ValueError" when int() raises.
\* int(substring[j+1]) is evaluated before int(substring[j]).
RECURSIVE num_seq_loop(_, _, _)
num_seq_loop(substring, len, j) ==
    IF j >= len - 1 THEN "seq"
    ELSE IF int_raises(substring[j + 2]) \/ int_raises(substring[j + 1]) THEN "ValueError"
    ELSE IF int(substring[j + 2]) # int(substring[j + 1]) + 1 THEN "break"
    ELSE num_seq_loop(substring, len, j + 1)

\* the loop of lines 59-63 from index j
RECURSIVE alpha_seq_loop(_, _, _)
alpha_seq_loop(substring, len, j) ==
    IF j >= len - 1 THEN "seq"
    ELSE IF ord(substring[j + 2]) # ord(substring[j + 1]) + 1 THEN "break"
    ELSE alpha_seq_loop(substring, len, j + 1)

\* the loop of lines 43-65 from window i: "True", "False" or "ValueError"
RECURSIVE seq_scan(_, _, _)
seq_scan(password_lower, len, i) ==
    IF i >= Len(password_lower) - len + 1 THEN "False"
    ELSE
      LET substring == slice(password_lower, i, i + len)
          num == IF isdigit(substring) THEN num_seq_loop(substring, len, 0) ELSE "break"
          alpha == IF isalpha(substring) THEN alpha_seq_loop(substring, len, 0) ELSE "break"
      IN  IF num = "ValueError" THEN "ValueError"
          ELSE IF num = "seq" THEN "True"
          ELSE IF alpha = "seq" THEN "True"
          ELSE seq_scan(password_lower, len, i + 1)

\* detect_sequences(password, length): [exc, ret]; ret is the bool returned,
\* FALSE when the call raised
detect_sequences(pw, len) ==
    LET out == IF Len(pw) < len THEN "False" ELSE seq_scan(lower(pw), len, 0)
    IN  [exc |-> IF out = "ValueError" THEN "ValueError" ELSE "none",
         ret |-> out = "True"]

-----------------------------------------------------------------------------
(* detect_repetitions, script.py lines 69-87 *)

\* lines 79-84: every character of substring[1:] equals substring[0]
is_repetition(substring) == \A k \in 2..Len(substring) : substring[k] = substring[1]

RECURSIVE rep_scan(_, _, _)
rep_scan(pw, len, i) ==
    IF i >= Len(pw) - len + 1 THEN FALSE
    ELSE IF is_repetition(slice(pw, i, i + len)) THEN TRUE
    ELSE rep_scan(pw, len, i + 1)

\* detect_repetitions(password, length), for a window length >= 1
detect_repetitions(pw, len) == IF Len(pw) < len THEN FALSE ELSE rep_scan(pw, len, 0)

-----------------------------------------------------------------------------
(* check_password_strength, script.py lines 92-176 *)

max(a, b) == IF a >= b THEN a ELSE b

\* lines 116-119: the length score
length_points(n) ==
    IF n >= GOOD_LENGTH THEN POINTS_GOOD_LENGTH
    ELSE IF n >= MIN_LENGTH THEN POINTS_MIN_LENGTH
    ELSE 0

\* lines 122-126
has_lower(pw) == \E k \in 1..Len(pw) : islower(pw[k])
has_upper(pw) == \E k \in 1..Len(pw) : isupper(pw[k])
has_digit(pw) == \E k \in 1..Len(pw) : char_isdigit(pw[k])
has_special(pw) == \E k \in 1..Len(pw) : pw[k] \in string_punctuation

\* variant: the uppercase points added in the else branch
class_points_upper_inverted(pw) ==
    (IF has_lower(pw) THEN POINTS_LOWER ELSE 0)
    + (IF has_upper(pw) THEN 0 ELSE POINTS_UPPER)
    + (IF has_digit(pw) THEN POINTS_DIGIT ELSE 0)
    + (IF has_special(pw) THEN POINTS_SPECIAL ELSE 0)

\* lines 129-136: the points of the character classes present
class_points(pw) ==
    (IF has_lower(pw) THEN POINTS_LOWER ELSE 0)
    + (IF has_upper(pw) THEN POINTS_UPPER ELSE 0)
    + (IF has_digit(pw) THEN POINTS_DIGIT ELSE 0)
    + (IF has_special(pw) THEN POINTS_SPECIAL ELSE 0)

\* lines 129-136: the names of the character classes absent, in append order
missing_criteria(pw) ==
    (IF has_lower(pw) THEN <<>> ELSE <<"lowercase letters">>)
    \o (IF has_upper(pw) THEN <<>> ELSE <<"uppercase letters">>)
    \o (IF has_digit(pw) THEN <<>> ELSE <<"numbers">>)
    \o (IF has_special(pw) THEN <<>> ELSE <<"special characters (!@#...)">>)

\* score after line 136
base_score(pw) == length_points(Len(pw)) + class_points(pw)

\* variant: the repetition penalty never added
penalty_of_sequence_only(seq, rep) == IF seq THEN PENALTY_SEQUENCE ELSE 0

\* lines 139-145: penalty, from what the two detectors returned
penalty_of(seq, rep) ==
    (IF seq THEN PENALTY_SEQUENCE ELSE 0) + (IF rep THEN PENALTY_REPETITION ELSE 0)

\* lines 140-145: weakness_found, in append order
weakness_found(seq, rep) ==
    (IF seq THEN <<"contains sequences (like 'abc' or '123')">> ELSE <<>>)
    \o (IF rep THEN <<"contains repetitions (like 'aaa' or '111')">> ELSE <<>>)

\* variant: the floor at zero left out
final_score_of_unclamped(score, penalty) == score - penalty

\* line 147
final_score_of(score, penalty) == max(0, score - penalty)

\* variant: the thresholds compared with < instead of <=
strength_of_strict(final_score) ==
    IF final_score < THRESHOLD_WEAK THEN "Very Weak"
    ELSE IF final_score < THRESHOLD_MODERATE THEN "Weak"
    ELSE IF final_score < THRESHOLD_STRONG THEN "Moderate"
    ELSE IF final_score < THRESHOLD_VERY_STRONG THEN "Strong"
    ELSE "Very Strong"

\* lines 152-161
strength_of(final_score) ==
    IF final_score <= THRESHOLD_WEAK THEN "Very Weak"
    ELSE IF final_score <= THRESHOLD_MODERATE THEN "Weak"
    ELSE IF final_score <= THRESHOLD_STRONG THEN "Moderate"
    ELSE IF final_score <= THRESHOLD_VERY_STRONG THEN "Strong"
    ELSE "Very Strong"

\* variant: the length suggestion appended before the missing criteria
details_of_length_first(missing, n, tier, weakness) ==
    (IF n < GOOD_LENGTH /\ tier \notin {"Strong", "Very Strong"}
     THEN <<"consider increasing length to " \o str(GOOD_LENGTH) \o "+ characters">>
     ELSE <<>>)
    \o (IF Len(missing) > 0
        THEN <<"consider adding: " \o join(", ", missing)>> ELSE <<>>)
    \o (IF Len(weakness) > 0
        THEN <<"avoid patterns like: " \o join(", ", weakness)>> ELSE <<>>)

\* lines 165-171: details, in append order
details_of(missing, n, tier, weakness) ==
    (IF Len(missing) > 0
     THEN <<"consider adding: " \o join(", ", missing)>> ELSE <<>>)
    \o (IF n < GOOD_LENGTH /\ tier \notin {"Strong", "Very Strong"}
        THEN <<"consider increasing length to " \o str(GOOD_LENGTH) \o "+ characters">>
        ELSE <<>>)
    \o (IF Len(weakness) > 0
        THEN <<"avoid patterns like: " \o join(", ", weakness)>> ELSE <<>>)

\* lines 164, 173-176
feedback_of(tier, details) ==
    IF Len(details) > 0 THEN tier \o " (" \o join("; ", details) \o ")" ELSE tier

\* line 112
too_short_message ==
    "Very Weak (Too Short - minimum " \o str(MIN_LENGTH) \o " characters recommended)"

\* The locals of a call that has not assigned them: -1 for a number, "" for a
\* string.  stage tells how far the call got: "short" (returned at line 112),
\* "raised" (detect_sequences raised at line 140), "scored" (returned at 176).
short_frame(pw) ==
    [stage |-> "short", exc |-> "none", ret |-> too_short_message,
     length |-> Len(pw), score |-> 0, missing_criteria |-> <<>>,
     seq |-> FALSE, rep |-> FALSE, penalty |-> -1, weakness_found |-> <<>>,
     final_score |-> -1, strength |-> "", details |-> <<>>]

raised_frame(pw) ==
    [stage |-> "raised", exc |-> "ValueError", ret |-> "",
     length |-> Len(pw), score |-> base_score(pw),
     missing_criteria |-> missing_criteria(pw),
     seq |-> FALSE, rep |-> FALSE, penalty |-> 0, weakness_found |-> <<>>,
     final_score |-> -1, strength |-> "", details |-> <<>>]

scored_frame(pw, seq, rep) ==
    LET score == base_score(pw)
        penalty == penalty_of(seq, rep)
        final_score == final_score_of(score, penalty)
        tier == strength_of(final_score)
        details == details_of(missing_criteria(pw), Len(pw), tier,
                              weakness_found(seq, rep))
    IN  [stage |-> "scored", exc |-> "none", ret |-> feedback_of(tier, details),
         length |-> Len(pw), score |-> score,
         missing_criteria |-> missing_criteria(pw),
         seq |-> seq, rep |-> rep, penalty |-> penalty,
         weakness_found |-> weakness_found(seq, rep),
         final_score |-> final_score, strength |-> tier, details |-> details]

\* variant: the length gate compares with <= MIN_LENGTH - 2
check_password_strength_gate_low(pw) ==
    IF Len(pw) < MIN_LENGTH - 1 THEN short_frame(pw)
    ELSE
      LET s == detect_sequences(pw, DEFAULT_LENGTH)
      IN  IF s.exc # "none" THEN raised_frame(pw)
          ELSE scored_frame(pw, s.ret, detect_repetitions(pw, DEFAULT_LENGTH))

\* check_password_strength(password): the call's outcome (exc, ret) with its locals
check_password_strength(pw) ==
    IF Len(pw) < MIN_LENGTH THEN short_frame(pw)
    ELSE
      LET s == detect_sequences(pw, DEFAULT_LENGTH)
      IN  IF s.exc # "none" THEN raised_frame(pw)
          ELSE scored_frame(pw, s.ret, detect_repetitions(pw, DEFAULT_LENGTH))

\* frame before any call of check_password_strength
no_frame ==
    [stage |-> "none", exc |-> "none", ret |-> "",
     length |-> 0, score |-> 0, missing_criteria |-> <<>>,
     seq |-> FALSE, rep |-> FALSE, penalty |-> -1, weakness_found |-> <<>>,
     final_score |-> -1, strength |-> "", details |-> <<>>]

-----------------------------------------------------------------------------
(* The inputs *)

\* longest freely chosen part of a password, and widest detector window
MaxCore == 3
MaxWindow == 3

\* a b c B 1 2 3 superscript-two !
Alphabet == {97, 98, 99, 66, 49, 50, 51, 178, 33}

Cores == UNION {[1..n -> Alphabet] : n \in 0..MaxCore}

\* Tails that bring a password to each length range: neutral ones (space and
\* tab: no character class, no run), "xQ7#" with all four classes, "zzz" with
\* a repetition, and alef-bet-gimel followed by three spaces (a sequence and a
\* repetition, no character class).
Pads ==
    { <<>>,
      <<32, 9, 32, 9>>,
      <<32, 9, 32, 9, 32, 9, 32, 9>>,
      <<32, 9, 32, 9, 32, 9, 32, 9, 32, 9, 32, 9>>,
      <<120, 81, 55, 35, 32, 9, 32, 9>>,
      <<120, 81, 55, 35, 32, 9, 32, 9, 32, 9, 32, 9>>,
      <<122, 122, 122, 32, 9, 32, 9, 32>>,
      <<1488, 1489, 1490, 32, 32, 32, 9, 32>> }

\* the passwords the specification and the claims name
S_short == <<115, 104, 111, 114, 116>>
S_alllowercase == <<97, 108, 108, 108, 111, 119, 101, 114, 99, 97, 115, 101>>
S_Abcdef1 == <<65, 98, 99, 100, 101, 102, 49, 33>>
S_aaaaaaaa == <<97, 97, 97, 97, 97, 97, 97, 97>>
S_ABC == <<65, 66, 67>>
S_CBA == <<67, 66, 65>>
S_321 == <<51, 50, 49>>
S_AaA == <<65, 97, 65>>
S_arabic123 == <<1633, 1634, 1635>>
S_sup2_123 == <<178, 178, 178, 49, 50, 51, 97, 33>>

Examples ==
    { S_short, S_alllowercase, S_Abcdef1, S_aaaaaaaa, S_ABC, S_CBA, S_321,
      S_AaA, S_arabic123, S_sup2_123 }

Passwords == {c \o p : c \in Cores, p \in Pads} \cup Examples

Windows == 1..MaxWindow

-----------------------------------------------------------------------------
(* Calls of check_password_strength on every password *)

\* user_password = None, after getpass raised (lines 187-189)
None == <<-1>>

\* last_input when input() raised EOFError, and before input() was ever called
EOFError == <<-2>>
NotAsked == <<-3>>

\* the main loop's variables while the loop is not running
LoopIdle ==
    /\ pc = "idle"
    /\ user_password = <<>>
    /\ strength = ""
    /\ another = <<>>
    /\ last_input = NotAsked
    /\ reads = 0
    /\ nonempty_reads = 0
    /\ calls = 0

\* no function called yet
NotCalled ==
    /\ fn = "none"
    /\ length = DEFAULT_LENGTH
    /\ exc = "none"
    /\ retb = FALSE
    /\ frame = no_frame

Init ==
    /\ password \in Passwords
    /\ NotCalled
    /\ LoopIdle

\* check_password_strength(password)
CallCheckPasswordStrength ==
    /\ fn = "none"
    /\ fn' = "check_password_strength"
    /\ frame' = check_password_strength(password)
    /\ exc' = frame'.exc
    /\ UNCHANGED <<password, length, retb>>
    /\ UNCHANGED loopVars

Next == CallCheckPasswordStrength

Spec == Init /\ [][Next]_vars

-----------------------------------------------------------------------------
(* Calls of the two detectors on every short password and window length *)

DetectInputs == Cores \cup Examples

DetectInit ==
    /\ password \in DetectInputs
    /\ NotCalled
    /\ LoopIdle

\* detect_sequences(password, length)
CallDetectSequences ==
    /\ fn = "none"
    /\ \E len \in Windows :
         LET r == detect_sequences(password, len)
         IN  /\ length' = len
             /\ exc' = r.exc
             /\ retb' = r.ret
    /\ fn' = "detect_sequences"
    /\ UNCHANGED <<password, frame>>
    /\ UNCHANGED loopVars

\* detect_repetitions(password, length)
CallDetectRepetitions ==
    /\ fn = "none"
    /\ \E len \in Windows :
         /\ length' = len
         /\ retb' = detect_repetitions(password, len)
    /\ fn' = "detect_repetitions"
    /\ UNCHANGED <<password, exc, frame>>
    /\ UNCHANGED loopVars

DetectNext ==
    \/ CallDetectSequences
    \/ CallDetectRepetitions

DetectSpec == DetectInit /\ [][DetectNext]_vars

-----------------------------------------------------------------------------
(* The interactive loop, script.py lines 184-203 *)

\* most password prompts in one run
MaxReads == 3

\* what getpass may return: nothing, passwords that are too short, that are
\* scored, and one on which the evaluation raises
Typed == {<<>>, S_short, S_aaaaaaaa, S_Abcdef1, S_alllowercase, S_sup2_123}

\* answers to "Check another password? (y/n): ":
\* "n", "N", " No ", "y", "", " ", "yn", tab "nope" newline
Answers ==
    { <<110>>, <<78>>, <<32, 78, 111, 32>>, <<121>>, <<>>, <<32>>,
      <<121, 110>>, <<9, 110, 111, 112, 101, 10>> }

LoopInit ==
    /\ password = <<>>
    /\ NotCalled
    /\ pc = "getpass"
    /\ user_password = <<>>
    /\ strength = ""
    /\ another = <<>>
    /\ last_input = NotAsked
    /\ reads = 0
    /\ nonempty_reads = 0
    /\ calls = 0

\* variant: the test written `user_password is None`
is_none(up) == up = None

\* `not user_password` (line 191): None and the empty str are falsy
not_(up) == up = None \/ up = <<>>

\* the call variables the main loop leaves alone; exc holds the exception
\* that ended the program, "none" while it runs
callRest == <<password, fn, length, retb, frame>>

\* exceptions of input() that `except EOFError` (line 202) does not catch
UncaughtInputErrors == {"UnicodeDecodeError", "RuntimeError", "OSError", "KeyboardInterrupt"}

\* last_input when input() raised one of them
Uncaught == <<-4>>

\* lines 191-196, with user_password as read: the empty or failed read
\* continues the loop, any other password is evaluated once and printed; an
\* exception of the evaluation is caught nowhere and ends the program
Evaluate(up) ==
    IF not_(up)
    THEN /\ pc' = "getpass"
         /\ UNCHANGED <<strength, calls, exc>>
    ELSE LET r == check_password_strength(up)
         IN  /\ calls' = calls + 1
             /\ IF r.exc # "none"
                THEN pc' = "crashed" /\ exc' = r.exc /\ UNCHANGED strength
                ELSE pc' = "input" /\ strength' = r.ret /\ UNCHANGED exc

\* lines 185-196: getpass returns a str
GetpassReturns ==
    /\ pc = "getpass"
    /\ reads < MaxReads
    /\ \E typed \in Typed :
         /\ user_password' = typed
         /\ nonempty_reads' = IF Len(typed) > 0 THEN nonempty_reads + 1 ELSE nonempty_reads
         /\ Evaluate(typed)
    /\ reads' = reads + 1
    /\ UNCHANGED <<another, last_input>>
    /\ UNCHANGED callRest

\* lines 185-193: getpass raises an Exception, user_password = None
GetpassRaises ==
    /\ pc = "getpass"
    /\ reads < MaxReads
    /\ user_password' = None
    /\ Evaluate(None)
    /\ reads' = reads + 1
    /\ UNCHANGED <<another, last_input, nonempty_reads>>
    /\ UNCHANGED callRest

\* lines 185-187: getpass raises KeyboardInterrupt, which is no Exception:
\* `except Exception` does not catch it and the program ends
GetpassInterrupted ==
    /\ pc = "getpass"
    /\ reads < MaxReads
    /\ pc' = "crashed"
    /\ exc' = "KeyboardInterrupt"
    /\ reads' = reads + 1
    /\ UNCHANGED <<user_password, strength, another, last_input, nonempty_reads, calls>>
    /\ UNCHANGED callRest

\* lines 198-201: input() returns a line
InputReturns ==
    /\ pc = "input"
    /\ \E answer \in Answers :
         /\ last_input' = answer
         /\ another' = lower(strip(answer))
         /\ pc' = IF startswith_n(another') THEN "exit" ELSE "getpass"
    /\ UNCHANGED <<user_password, strength, reads, nonempty_reads, calls, exc>>
    /\ UNCHANGED callRest

\* lines 202-203: input() raises EOFError
InputRaisesEOFError ==
    /\ pc = "input"
    /\ last_input' = EOFError
    /\ pc' = "exit"
    /\ UNCHANGED <<user_password, strength, another, reads, nonempty_reads, calls, exc>>
    /\ UNCHANGED callRest

\* lines 198-203: input() raises anything else; nothing catches it, the
\* program ends without the closing prints
InputRaisesOther ==
    /\ pc = "input"
    /\ \E e \in UncaughtInputErrors : exc' = e
    /\ last_input' = Uncaught
    /\ pc' = "crashed"
    /\ UNCHANGED <<user_password, strength, another, reads, nonempty_reads, calls>>
    /\ UNCHANGED callRest

\* lines 205-209: the closing prints
Exit ==
    /\ pc = "exit"
    /\ pc' = "done"
    /\ UNCHANGED <<user_password, strength, another, last_input, reads,
                   nonempty_reads, calls, exc>>
    /\ UNCHANGED callRest

LoopNext ==
    \/ GetpassReturns
    \/ GetpassRaises
    \/ GetpassInterrupted
    \/ InputReturns
    \/ InputRaisesEOFError
    \/ InputRaisesOther
    \/ Exit

LoopSpec == LoopInit /\ [][LoopNext]_vars

-----------------------------------------------------------------------------
(* Definitions the properties share.  They restate what the specification   *)
(* says in its own terms and use none of the operators of the evaluator.    *)

Checked == fn = "check_password_strength"

\* the call of check_password_strength returned the string built at line 176
Scored == Checked /\ frame.stage = "scored"

\* the character classes present in a password
Classes(pw) ==
    {c \in {"lower", "upper", "digit", "special"} :
        \E k \in 1..Len(pw) :
            \/ c = "lower" /\ pw[k] \in AsciiLower
            \/ c = "upper" /\ pw[k] \in AsciiUpper
            \/ c = "digit" /\ pw[k] \in DecimalDigits \cup SuperscriptDigits
            \/ c = "special" /\ pw[k] \in string_punctuation}

\* some window of len characters is one character repeated
HasRepetition(pw, len) ==
    \E i \in 1..(Len(pw) - len + 1) : \A k \in 1..(len - 1) : pw[i + k] = pw[i]

\* the numeric value of a digit character
DigitValue(c) ==
    IF c \in 48..57 THEN c - 48
    ELSE IF c \in 1632..1641 THEN c - 1632
    ELSE IF c = 185 THEN 1
    ELSE IF c = 178 THEN 2
    ELSE 3

Fold(c) == IF c \in AsciiUpper THEN c + 32 ELSE c

\* some window of len characters of the case-folded password is an ascending
\* run of digits (by value) or of letters (by code point)
HasSequence(pw, len) ==
    \E i \in 1..(Len(pw) - len + 1) :
        \/ /\ \A k \in 0..(len - 1) : pw[i + k] \in DecimalDigits \cup SuperscriptDigits
           /\ \A k \in 1..(len - 1) : DigitValue(pw[i + k]) = DigitValue(pw[i + k - 1]) + 1
        \/ /\ \A k \in 0..(len - 1) :
                 pw[i + k] \in AsciiUpper \cup AsciiLower \cup HebrewLetters
           /\ \A k \in 1..(len - 1) : Fold(pw[i + k]) = Fold(pw[i + k - 1]) + 1

TierRank(tier) ==
    CASE tier = "Very Weak" -> 0
      [] tier = "Weak" -> 1
      [] tier = "Moderate" -> 2
      [] tier = "Strong" -> 3
      [] tier = "Very Strong" -> 4

\* Reference passwords: every set of character classes a three-character
\* password can show (a, B, 1, !), before every tail.  Their evaluations are
\* the second password of the properties that compare two passwords.
RefCores ==
    { <<>>, <<97>>, <<66>>, <<49>>, <<33>>,
      <<97, 66>>, <<97, 49>>, <<97, 33>>, <<66, 49>>, <<66, 33>>, <<49, 33>>,
      <<97, 66, 49>>, <<97, 66, 33>>, <<97, 49, 33>>, <<66, 49, 33>> }

RefEvaluations ==
    {[pw |-> c \o p, classes |-> Classes(c \o p), f |-> check_password_strength(c \o p)] :
        c \in RefCores, p \in Pads}

RefScored == {r \in RefEvaluations : r.f.stage = "scored"}

-----------------------------------------------------------------------------
(* Properties *)

\* C1: a password shorter than MIN_LENGTH (8), whatever its characters, gets
\* exactly the fixed too-short message, and nothing is scored or detected:
\* the call returns at the length gate with no score, no missing criteria, no
\* penalty and no weakness recorded.
C1_TooShort ==
    (Checked /\ Len(password) < 8) =>
        /\ frame.exc = "none"
        /\ frame.ret = "Very Weak (Too Short - minimum 8 characters recommended)"
        /\ frame.stage = "short"
        /\ frame.score = 0
        /\ frame.missing_criteria = <<>>
        /\ frame.weakness_found = <<>>
        /\ frame.penalty = -1
        /\ frame.final_score = -1

\* a seven-character password with digits and the run "123" was evaluated
C1_Witness ==
    /\ Checked
    /\ Len(password) = 7
    /\ "digit" \in Classes(password)
    /\ HasSequence(password, 3)
    /\ frame.stage = "short"

\* C2: no call of check_password_strength, detect_sequences or
\* detect_repetitions ends in an error, whatever the string.
C2_NoError == exc = "none"

\* C3: the tier is decided by the final score alone: <= 1 Very Weak, 2..3
\* Weak, 4 Moderate, 5 Strong, >= 6 Very Strong; and against every reference
\* password a higher final score never has a lower tier, an equal one the same.
C3_TierByScore ==
    Scored =>
        LET fs == frame.final_score
            tier == frame.strength
        IN  /\ (fs <= 1) <=> (tier = "Very Weak")
            /\ (fs \in 2..3) <=> (tier = "Weak")
            /\ (fs = 4) <=> (tier = "Moderate")
            /\ (fs = 5) <=> (tier = "Strong")
            /\ (fs >= 6) <=> (tier = "Very Strong")
            /\ \A r \in RefScored :
                 /\ r.f.final_score <= fs => TierRank(r.f.strength) <= TierRank(tier)
                 /\ r.f.final_score = fs => r.f.strength = tier

\* a final score on the upper edge of a tier: 3 is still Weak
C3_Witness == Scored /\ frame.final_score = 3 /\ frame.strength = "Weak"

\* C4: the penalty is 1 if a three-character sequence is detected plus 1 if a
\* three-character repetition is detected, and the final score is the base
\* score less the penalty, floored at zero.
C4_PenaltyAndFloor ==
    Scored =>
        LET seq == HasSequence(password, 3)
            rep == HasRepetition(password, 3)
            pen == (IF seq THEN 1 ELSE 0) + (IF rep THEN 1 ELSE 0)
        IN  /\ frame.seq = seq
            /\ frame.rep = rep
            /\ frame.penalty = pen
            /\ frame.final_score = (IF frame.score - pen < 0 THEN 0 ELSE frame.score - pen)
            /\ frame.final_score >= 0

\* both detectors fired on a password whose base score is below the penalty
C4_Witness ==
    /\ Scored
    /\ frame.seq /\ frame.rep
    /\ frame.penalty = 2
    /\ frame.score = 1
    /\ frame.final_score = 0

\* C5: detect_sequences(password, length) returns true exactly when some
\* window of length characters of the case-folded password is an ascending
\* run of digits or of letters, and false when the password is shorter than
\* the window.
C5_SequencesExactly ==
    fn = "detect_sequences" =>
        /\ exc = "none"
        /\ retb <=> HasSequence(password, length)
        /\ Len(password) < length => ~retb

\* C6 as the specification states it: "alllowercase" has base score 3, no
\* detector fires, the final score is 3, the tier Weak, and uppercase
\* letters, numbers and special characters are listed as missing.
C6_Original ==
    (Checked /\ password = S_alllowercase) =>
        /\ frame.score = 3
        /\ ~frame.seq
        /\ ~frame.rep
        /\ frame.final_score = 3
        /\ frame.strength = "Weak"
        /\ frame.missing_criteria =
             <<"uppercase letters", "numbers", "special characters (!@#...)">>

\* C6 (amended): "alllowercase" has base score 3; the sequence detector does
\* not fire but the repetition detector does (on "lll"), so the penalty is 1,
\* the final score 2 and the tier Weak; the feedback lists the three missing
\* classes and the repetition.
C6_AllLowercase ==
    (Checked /\ password = S_alllowercase) =>
        /\ frame.score = 3
        /\ ~frame.seq
        /\ frame.rep
        /\ frame.penalty = 1
        /\ frame.final_score = 2
        /\ frame.strength = "Weak"
        /\ frame.missing_criteria =
             <<"uppercase letters", "numbers", "special characters (!@#...)">>
        /\ frame.ret = "Weak (consider adding: uppercase letters, numbers, special characters (!@#...); avoid patterns like: contains repetitions (like 'aaa' or '111'))"

\* "alllowercase" was evaluated
C6_Witness == Checked /\ password = S_alllowercase /\ frame.stage = "scored"

\* two scored passwords get the same length points and the same penalty
SameLengthAndPenalty(r) ==
    /\ (Len(r.pw) >= 12) <=> (Len(password) >= 12)
    /\ r.f.penalty = frame.penalty

\* C7 as the specification states it: with length points and penalty equal,
\* a password with at least as many character classes as another has a final
\* score at least as high.
C7_Original ==
    Scored =>
        \A r \in RefScored :
            (/\ SameLengthAndPenalty(r)
             /\ Cardinality(Classes(password)) >= Cardinality(r.classes))
            => frame.final_score >= r.f.final_score

\* the one case in which counting classes misorders two passwords: equally
\* many classes, the second with a special character and the first without
SpecialTie(first, second) ==
    /\ Cardinality(first) = Cardinality(second)
    /\ "special" \in second
    /\ "special" \notin first

\* C7 (amended): with length points and penalty equal, a password with at
\* least as many character classes as another has a final score at least as
\* high, unless the two have equally many classes and the other has a special
\* character while this one has none.  Stated with the evaluated password as
\* the first and as the second of the pair.
C7_MonotoneInClassCount ==
    Scored =>
        \A r \in RefScored :
            SameLengthAndPenalty(r) =>
                /\ (/\ Cardinality(Classes(password)) >= Cardinality(r.classes)
                    /\ ~SpecialTie(Classes(password), r.classes))
                   => frame.final_score >= r.f.final_score
                /\ (/\ Cardinality(r.classes) >= Cardinality(Classes(password))
                    /\ ~SpecialTie(r.classes, Classes(password)))
                   => r.f.final_score >= frame.final_score

\* a password with more classes than a reference password of the same length
\* points and penalty, none of them the special class the reference has
C7_Witness ==
    /\ Scored
    /\ \E r \in RefScored :
         /\ SameLengthAndPenalty(r)
         /\ Cardinality(Classes(password)) > Cardinality(r.classes)
         /\ r.classes = {"special"}
         /\ "special" \notin Classes(password)
         /\ frame.final_score > r.f.final_score

\* C8: the returned string is the tier, then, when any applies, " (" the
\* fragments joined by "; " and ")": first the missing classes iff a class is
\* missing, then the length suggestion iff the length is below 12 and the
\* tier neither Strong nor Very Strong, then the patterns iff a sequence or a
\* repetition was detected.
C8_Feedback ==
    Scored =>
        LET a == Classes(password) # {"lower", "upper", "digit", "special"}
            b == Len(password) < 12 /\ frame.strength \notin {"Strong", "Very Strong"}
            c == HasSequence(password, 3) \/ HasRepetition(password, 3)
            ta == IF a THEN "consider adding: " \o join(", ", frame.missing_criteria) ELSE ""
            tb == IF b THEN "consider increasing length to 12+ characters" ELSE ""
            tc == IF c THEN "avoid patterns like: " \o join(", ", frame.weakness_found) ELSE ""
            ab == IF a /\ (b \/ c) THEN "; " ELSE ""
            bc == IF b /\ c THEN "; " ELSE ""
        IN  /\ a <=> Len(frame.missing_criteria) > 0
            /\ c <=> Len(frame.weakness_found) > 0
            /\ frame.ret =
                 IF a \/ b \/ c
                 THEN frame.strength \o " (" \o ta \o ab \o tb \o bc \o tc \o ")"
                 ELSE frame.strength

\* all three fragments apply
C8_Witness ==
    /\ Scored
    /\ Len(frame.details) = 3
    /\ Len(frame.missing_criteria) = 2
    /\ Len(frame.weakness_found) = 2

\* a negative answer: its first character after leading whitespace is n or N
IsNegative(answer) ==
    \E k \in 1..Len(answer) :
        /\ answer[k] \in {110, 78}
        /\ \A j \in 1..(k - 1) : answer[j] \in Whitespace

\* the evaluator is called once per non-empty password read and never for an
\* empty or failed read, which leads back to the password prompt (where the
\* next event may be an interrupt)
C9_OncePerPassword ==
    /\ calls = nonempty_reads
    /\ (reads > 0 /\ (user_password = None \/ user_password = <<>>)) =>
           (pc = "getpass" \/ (pc = "crashed" /\ exc = "KeyboardInterrupt"))
    /\ pc = "input" => (user_password # None /\ Len(user_password) > 0)

\* C9 as the specification states it: once per non-empty password, back to
\* the prompt after an empty or failed read, and the loop is left only after
\* a negative answer to "Check another password?".
C9_Original ==
    /\ C9_OncePerPassword
    /\ pc \in {"exit", "done"} => (last_input # EOFError /\ IsNegative(last_input))

\* C9 (amended): once per non-empty password, back to the prompt after an
\* empty or failed read, and the loop is left only after a negative answer or
\* an EOFError at "Check another password?"; the program otherwise stops only
\* on an exception nothing catches: of the evaluation of the password just
\* read, of input() other than EOFError, or KeyboardInterrupt at a prompt.
C9_LoopUntilNoOrEOF ==
    /\ C9_OncePerPassword
    /\ pc \in {"exit", "done"} =>
           (exc = "none" /\ (last_input = EOFError \/ IsNegative(last_input)))
    /\ (pc = "getpass" /\ last_input # NotAsked) =>
           (last_input \notin {EOFError, Uncaught} /\ ~IsNegative(last_input))
    /\ pc = "crashed" =>
           \/ /\ exc = "ValueError"
              /\ last_input # Uncaught
              /\ \E k \in 1..Len(user_password) : user_password[k] \in SuperscriptDigits
           \/ /\ exc \in {"UnicodeDecodeError", "RuntimeError", "OSError", "KeyboardInterrupt"}
              /\ last_input = Uncaught
           \/ /\ exc = "KeyboardInterrupt"
              /\ last_input # Uncaught
    /\ pc # "crashed" => exc = "none"

\* the loop was left on EOFError after one empty read and one evaluation
C9_Witness ==
    /\ pc = "done"
    /\ last_input = EOFError
    /\ reads = 2
    /\ calls = 1

\* C10: the final score never exceeds 7; Very Strong is returned only for a
\* password with a punctuation character; and for a password of 8 to 11
\* characters only with all four classes and neither penalty.
C10_VeryStrong ==
    Scored =>
        /\ frame.final_score <= 7
        /\ frame.strength = "Very Strong" => "special" \in Classes(password)
        /\ (frame.strength = "Very Strong" /\ Len(password) \in 8..11) =>
             /\ Classes(password) = {"lower", "upper", "digit", "special"}
             /\ ~HasSequence(password, 3)
             /\ ~HasRepetition(password, 3)

\* a Very Strong password of fewer than 12 characters
C10_Witness ==
    /\ Scored
    /\ frame.strength = "Very Strong"
    /\ Len(password) \in 8..11
    /\ frame.final_score = 6

====
